---- MODULE Spec2Model ----
(***************************************************************************)
(* Cursor trail overlay (src/unnamed/part_000): the particle pool with its *)
(* animation loop, and the screen recording controller of the App          *)
(* component, its settings store and its control surface.                  *)
(***************************************************************************)
EXTENDS Integers, Sequences, FiniteSets, TLC

(***************************************************************************)
(* Bounds of the environment.                                              *)
(***************************************************************************)
\* A run is a burst, up to MaxAdds points created while render() has run at
\* most BurstFrames times, or a trickle, up to SmallAdds points created while
\* render() has run at most MaxFrames times.
MaxAdds == 50
BurstFrames == 2
SmallAdds == 2
MaxFrames == 21
\* capture requests issued in one run
MaxStarts == 2
\* non-empty buffers one encoder produces
MaxChunks == 2
\* executions of render() up to which the configuration is changed
MaxConfigFrames == 4

(***************************************************************************)
(* Program constants.                                                      *)
(***************************************************************************)
MAX_POINTS == 48

\* ids of TRAIL_STYLES and hex values of COLOR_PRESETS
TRAIL_STYLES == {"gradient", "sparkle", "brush", "star", "glow"}
COLOR_PRESETS == {"#8B5CF6", "#3B82F6", "#EC4899", "#10B981", "#F59E0B", "#00C4CC"}

PRESET_COMBOS ==
    {[id |-> "tutorial-pop", shortcut |-> "1",
      config |-> [style |-> "sparkle", color |-> "#F59E0B", size |-> 28, fade |-> 70]],
     [id |-> "signature-cyan", shortcut |-> "2",
      config |-> [style |-> "glow", color |-> "#00C4CC", size |-> 32, fade |-> 55]],
     [id |-> "brush-studio", shortcut |-> "3",
      config |-> [style |-> "brush", color |-> "#8B5CF6", size |-> 36, fade |-> 85]]}

Null == "null"
\* a ref whose current is null; capture handles and encoders are numbered from 1
NoRef == 0
\* recordingUrl is null, or holds the URL of one blob
NoUrl == <<>>

VARIABLES
    \* React state of App (lines 146-156)
    isActive, trailStyle, trailColor, trailSize, fadeSpeed, activePresetId,
    settingsHydrated, recordingState, recordingUrl, recordingError,
    \* refs of App (lines 140-144)
    animationRef, pointsRef, mediaRecorderRef, chunksRef, screenStreamRef,
    \* the component is mounted (its effects are live, its state exists)
    mounted,
    \* window.localStorage[STORAGE_KEY]
    stored,
    \* window.cursorTrailControls, the controls object the control surface
    \* effect of this component installed last, and the one a second App
    \* mounted in the same window installed last (NoRef: none)
    windowControls, controls, peerControls,
    \* frame callbacks requested and not yet run or cancelled, each with the
    \* configuration its closure captured
    rafQueue,
    \* navigator.mediaDevices.getDisplayMedia exists
    hasCapture,
    \* startRecording() invocations suspended at the await of line 204
    pending,
    \* per capture handle: "none", "live" or "stopped" tracks
    tracks,
    \* per MediaRecorder: "none", "recording", "finalizing" (inactive, its
    \* stop event still queued) or "inactive"
    recorders,
    \* per MediaRecorder: number of non-empty buffers it has produced
    dataCount,
    \* points created, executions of render(), capture requests issued
    adds, frames, starts,
    \* the handler that ran last
    lastOp

cfgVars == <<isActive, trailStyle, trailColor, trailSize, fadeSpeed, activePresetId,
             settingsHydrated, stored>>
poolVars == <<pointsRef, animationRef, rafQueue, adds, frames>>
recVars == <<recordingState, recordingUrl, recordingError, mediaRecorderRef, chunksRef,
             screenStreamRef, pending, tracks, recorders, dataCount, starts>>
bridgeVars == <<windowControls, controls, peerControls>>
vars == <<cfgVars, poolVars, recVars, bridgeVars, mounted, hasCapture, lastOp>>

(***************************************************************************)
(* IEEE-754 binary64 arithmetic on point.life.  A life value is kept as    *)
(* the integer hi * 2^29 + lo in units of 2^-58, which holds every double  *)
(* the program computes from life = 1 and fadeSpeed / 1000 for integer     *)
(* fadeSpeed with 16 <= |fadeSpeed| < 2000 (or 0), as long as life < 4.    *)
(***************************************************************************)
Half29 == 2^29

\* spacing of the doubles around hi * 2^29 + lo, in units of 2^-58
Grid(hi) == IF hi < 16777216 THEN 1
            ELSE IF hi < 33554432 THEN 2
            ELSE IF hi < 67108864 THEN 4
            ELSE IF hi < 134217728 THEN 8
            ELSE IF hi < 268435456 THEN 16
            ELSE IF hi < 536870912 THEN 32
            ELSE IF hi < 1073741824 THEN 64
            ELSE 128

\* round to nearest, ties to even; tail tells how the part below one unit
\* compares with half a unit: 0 nothing, 1 below, 2 equal, 3 above
RoundNearestEven(hi, lo, tail) ==
    LET m    == Grid(hi)
        q    == lo % m
        base == lo - q
        odd  == ((lo \div m) % 2) = 1
        up   == IF m = 1
                THEN tail = 3 \/ (tail = 2 /\ odd)
                ELSE \/ 2 * q > m
                     \/ 2 * q = m /\ (tail > 0 \/ odd)
        lo2  == IF up THEN base + m ELSE base
    IN  IF lo2 = Half29 THEN [hi |-> hi + 1, lo |-> 0]
                        ELSE [hi |-> hi, lo |-> lo2]

\* the double nearest to a / 1000 for an integer a >= 0: a / 1000 is
\* a * 2^55 / 125 units, produced by long division
Div1000(a) ==
    LET q0 == a \div 125
        r0 == a % 125
        c1 == (r0 * 8192) \div 125
        r1 == (r0 * 8192) % 125
        c2 == (r1 * 8192) \div 125
        r2 == (r1 * 8192) % 125
        c3 == (r2 * 32768) \div 125
        r3 == (r2 * 32768) % 125
        c4 == (r3 * 16384) \div 125
        r4 == (r3 * 16384) % 125
        tail == IF r4 = 0 THEN 0 ELSE IF 2 * r4 < 125 THEN 1 ELSE 3
    IN  RoundNearestEven(q0 * 67108864 + c1 * 8192 + c2, c3 * 16384 + c4, tail)

LifeOne == [hi |-> Half29, lo |-> 0]
LifeZero == [hi |-> 0, lo |-> 0]

LifeLeq(a, b) == a.hi < b.hi \/ (a.hi = b.hi /\ a.lo <= b.lo)

\* a - b as a double, for a > b >= 0
LifeSub(a, b) ==
    LET borrow == a.lo < b.lo
        lo == IF borrow THEN a.lo + Half29 - b.lo ELSE a.lo - b.lo
        hi == IF borrow THEN a.hi - b.hi - 1 ELSE a.hi - b.hi
    IN  RoundNearestEven(hi, lo, 0)

\* a + b as a double, for a, b >= 0
LifeAdd(a, b) ==
    LET sum == a.lo + b.lo
        carry == sum >= Half29
        lo == IF carry THEN sum - Half29 ELSE sum
        hi == IF carry THEN a.hi + b.hi + 1 ELSE a.hi + b.hi
    IN  RoundNearestEven(hi, lo, 0)

(***************************************************************************)
(* Particle pool and animation loop.                                       *)
(***************************************************************************)
\* marks a nextLife that is <= 0
Dead == [hi |-> 0 - 1, lo |-> 0]

\* point.life - fadeSpeed / 1000 (line 297); Dead when the result is <= 0
NextLife(life, fade) ==
    IF fade >= 0
    THEN IF LifeLeq(life, Div1000(fade)) THEN Dead ELSE LifeSub(life, Div1000(fade))
    ELSE LifeAdd(life, Div1000(0 - fade))

\* mutant: render() collecting the survivors in reverse
RECURSIVE RenderPointsReversed(_, _)
RenderPointsReversed(points, fade) ==
    IF points = <<>> THEN <<>>
    ELSE LET point == Head(points)
             nextLife == NextLife(point.life, fade)
             updatedPoint == [point EXCEPT !.life = nextLife,
                                           !.steps = @ + 1,
                                           !.fades = @ \cup {fade}]
         IN  IF nextLife = Dead
             THEN RenderPointsReversed(Tail(points), fade)
             ELSE RenderPointsReversed(Tail(points), fade) \o <<updatedPoint>>

\* the loop of render(): the survivors, in order, with their new life.
\* steps and fades record a point's history (the number of render() calls it
\* went through and the fade rates they applied); the program does not keep
\* them.
RECURSIVE RenderPoints(_, _)
RenderPoints(points, fade) ==
    IF points = <<>> THEN <<>>
    ELSE LET point == Head(points)
             nextLife == NextLife(point.life, fade)
             updatedPoint == [point EXCEPT !.life = nextLife,
                                           !.steps = @ + 1,
                                           !.fades = @ \cup {fade}]
         IN  IF nextLife = Dead
             THEN RenderPoints(Tail(points), fade)
             ELSE <<updatedPoint>> \o RenderPoints(Tail(points), fade)

\* the point handleMouseMove creates (lines 271-276): x, y and seed are its id
NewPoint(id) == [id |-> id, life |-> LifeOne, steps |-> 0, fades |-> {}]

\* mutant: the push without the shift
PushPointNoShift(points, point) == Append(points, point)

\* the body of handleMouseMove when the trail is active: push, then shift
PushPoint(points, point) ==
    LET pushed == Append(points, point)
    IN  IF Len(pushed) > MAX_POINTS THEN Tail(pushed) ELSE pushed

\* what a render closure captured from the state it was created in
Closure(style, color, size, fade) ==
    [style |-> style, color |-> color, size |-> size, fade |-> fade]

(***************************************************************************)
(* Settings store.  A stored payload is absent, unparseable, or an object  *)
(* whose fields are JavaScript values [t |-> typeof, v |-> value].         *)
(***************************************************************************)
Absent == [kind |-> "absent"]
Malformed == [kind |-> "malformed"]

JsBool(b)   == [t |-> "boolean", v |-> b]
JsString(x) == [t |-> "string", v |-> x]
JsNumber(n) == [t |-> "number", v |-> n]
JsNull      == [t |-> "object", v |-> Null]

DefaultConfig ==
    [isActive |-> TRUE, trailStyle |-> "gradient", trailColor |-> "#8B5CF6",
     trailSize |-> 22, fadeSpeed |-> 55, activePresetId |-> Null]

\* JSON.stringify(payload) of the save effect, as the parsed object
Serialize(c) ==
    [kind |-> "object",
     isActive |-> JsBool(c.isActive), trailStyle |-> JsString(c.trailStyle),
     trailColor |-> JsString(c.trailColor), trailSize |-> JsNumber(c.trailSize),
     fadeSpeed |-> JsNumber(c.fadeSpeed),
     activePresetId |-> IF c.activePresetId = Null THEN JsNull
                        ELSE JsString(c.activePresetId)]

\* the load effect: each field is taken when its typeof matches
Field(payload, name, type) ==
    IF payload.kind # "object" THEN DefaultConfig[name]
    ELSE IF payload[name].t = type THEN payload[name].v ELSE DefaultConfig[name]

Hydrate(payload) ==
    [isActive |-> Field(payload, "isActive", "boolean"),
     trailStyle |-> Field(payload, "trailStyle", "string"),
     trailColor |-> Field(payload, "trailColor", "string"),
     trailSize |-> Field(payload, "trailSize", "number"),
     fadeSpeed |-> Field(payload, "fadeSpeed", "number"),
     activePresetId |-> Field(payload, "activePresetId", "string")]

CurrentConfig ==
    [isActive |-> isActive, trailStyle |-> trailStyle, trailColor |-> trailColor,
     trailSize |-> trailSize, fadeSpeed |-> fadeSpeed, activePresetId |-> activePresetId]

\* payloads found in the store at startup
StoredFade(n) == [Serialize(DefaultConfig) EXCEPT !.fadeSpeed = JsNumber(n)]
PoolPayloads ==
    {Absent, StoredFade(120), StoredFade(500), StoredFade(0 - 50),
     [Serialize(DefaultConfig) EXCEPT !.fadeSpeed = JsString("fast")]}

(***************************************************************************)
(* The state after the first mount: the load effect has run, the state it  *)
(* set is committed, the save effect has written it back and the animation *)
(* effect has run render() for each configuration it saw.                  *)
(***************************************************************************)
InitWith(payloads) ==
    \E payload \in payloads :
        LET c == Hydrate(payload)
            reran == <<c.trailStyle, c.trailColor, c.trailSize, c.fadeSpeed>> #
                     <<DefaultConfig.trailStyle, DefaultConfig.trailColor,
                       DefaultConfig.trailSize, DefaultConfig.fadeSpeed>>
            n == IF reran THEN 2 ELSE 1
        IN  /\ isActive = c.isActive
            /\ trailStyle = c.trailStyle
            /\ trailColor = c.trailColor
            /\ trailSize = c.trailSize
            /\ fadeSpeed = c.fadeSpeed
            /\ activePresetId = c.activePresetId
            /\ settingsHydrated = TRUE
            /\ stored = Serialize(c)
            /\ pointsRef = <<>>
            /\ frames = n
            /\ animationRef = n
            /\ rafQueue = {[id |-> n,
                            cfg |-> Closure(c.trailStyle, c.trailColor, c.trailSize, c.fadeSpeed)]}
            /\ adds = 0
            /\ mounted = TRUE
            /\ hasCapture \in BOOLEAN
            /\ recordingState = "idle"
            /\ recordingUrl = NoUrl
            /\ recordingError = ""
            /\ mediaRecorderRef = NoRef
            /\ chunksRef = <<>>
            /\ screenStreamRef = NoRef
            /\ pending = 0
            /\ tracks = [s \in 1..MaxStarts |-> "none"]
            /\ recorders = [s \in 1..MaxStarts |-> "none"]
            /\ dataCount = [s \in 1..MaxStarts |-> 0]
            /\ starts = 0
            /\ windowControls = 1
            /\ controls = 1
            /\ peerControls = NoRef
            /\ lastOp = "mount"

\* mutant: a cancel that leaves the callback in the queue
CancelNothing(queue, id) == queue

\* cancelAnimationFrame(id) (line 311): the callbacks still pending
CancelAnimationFrame(queue, id) == {cb \in queue : cb.id # id}

\* the animation effect of lines 287-314 after a commit: when a dependency
\* changed, its cleanup cancels the pending frame and it calls render()
AnimationEffect(style, color, size, fade) ==
    IF <<style, color, size, fade>> = <<trailStyle, trailColor, trailSize, fadeSpeed>>
    THEN UNCHANGED <<pointsRef, animationRef, rafQueue, frames>>
    ELSE /\ pointsRef' = RenderPoints(pointsRef, fade)
         /\ frames' = frames + 1
         /\ animationRef' = frames + 1
         /\ rafQueue' = CancelAnimationFrame(rafQueue, animationRef) \cup
                        {[id |-> frames + 1, cfg |-> Closure(style, color, size, fade)]}

\* mutant: the save effect without its settingsHydrated guard
SaveEffectUnguarded(c, hydrated) == stored' = Serialize(c)

\* the save effect of lines 178-182 after a commit that changed a dependency
SaveEffect(c, hydrated) == stored' = IF hydrated THEN Serialize(c) ELSE stored

\* the runs the environment produces: a burst or a trickle
InEnvironment(created, rendered) ==
    \/ created <= MaxAdds /\ rendered <= BurstFrames
    \/ created <= SmallAdds /\ rendered <= MaxFrames

\* handleMouseMove (lines 269-281)
MouseMove ==
    /\ mounted
    /\ IF isActive
       THEN /\ InEnvironment(adds + 1, frames)
            /\ adds' = adds + 1
            /\ pointsRef' = PushPoint(pointsRef, NewPoint(adds + 1))
       ELSE UNCHANGED <<adds, pointsRef>>
    /\ lastOp' = "mousemove"
    /\ UNCHANGED <<cfgVars, animationRef, rafQueue, frames, recVars, bridgeVars, mounted, hasCapture>>

\* a frame callback runs render() (lines 292-306)
Frame ==
    /\ InEnvironment(adds, frames + 1)
    /\ \E cb \in rafQueue :
        /\ pointsRef' = RenderPoints(pointsRef, cb.cfg.fade)
        /\ rafQueue' = (rafQueue \ {cb}) \cup {[id |-> frames + 1, cfg |-> cb.cfg]}
    /\ frames' = frames + 1
    /\ animationRef' = frames + 1
    /\ lastOp' = "frame"
    /\ UNCHANGED <<cfgVars, adds, recVars, bridgeVars, mounted, hasCapture>>

\* the T key, the ON/OFF button and controls.toggle (lines 339, 379, 426)
ToggleActive ==
    /\ mounted
    /\ settingsHydrated
    /\ isActive' = ~isActive
    /\ SaveEffect([CurrentConfig EXCEPT !.isActive = ~isActive], settingsHydrated)
    /\ lastOp' = "toggle"
    /\ UNCHANGED <<trailStyle, trailColor, trailSize, fadeSpeed, activePresetId,
                   settingsHydrated, poolVars, recVars, bridgeVars, mounted, hasCapture>>

\* values the fade slider is moved to
SliderFades == {100}

\* the fade slider (lines 523-526)
SetFadeSpeed ==
    /\ mounted
    /\ settingsHydrated
    /\ InEnvironment(adds, frames + 1)
    /\ \E value \in SliderFades :
        /\ fadeSpeed' = value
        /\ activePresetId' = Null
        /\ AnimationEffect(trailStyle, trailColor, trailSize, value)
        /\ SaveEffect([CurrentConfig EXCEPT !.fadeSpeed = value, !.activePresetId = Null],
                      settingsHydrated)
    /\ lastOp' = "fade"
    /\ UNCHANGED <<isActive, trailStyle, trailColor, trailSize, settingsHydrated, adds,
                   recVars, bridgeVars, mounted, hasCapture>>

(***************************************************************************)
(* Configuration: presets, shortcuts, panel controls and the settings      *)
(* store.  The handlers run once the state the load effect set is          *)
(* committed.                                                              *)
(***************************************************************************)
\* the commit of one handler's state updates: the save effect and the
\* animation effect run with the new configuration
Commit(c) ==
    /\ isActive' = c.isActive
    /\ trailStyle' = c.trailStyle
    /\ trailColor' = c.trailColor
    /\ trailSize' = c.trailSize
    /\ fadeSpeed' = c.fadeSpeed
    /\ activePresetId' = c.activePresetId
    /\ SaveEffect(c, settingsHydrated)
    /\ AnimationEffect(c.trailStyle, c.trailColor, c.trailSize, c.fadeSpeed)
    /\ UNCHANGED <<settingsHydrated, adds, recVars, bridgeVars, mounted, hasCapture>>

\* a handler that changes the configuration runs
CanConfigure == mounted /\ settingsHydrated /\ frames < MaxConfigFrames

\* mutant: applyPreset without its fade rate
ApplyPresetKeepFade(preset) ==
    [CurrentConfig EXCEPT !.trailStyle = preset.config.style,
                          !.trailColor = preset.config.color,
                          !.trailSize = preset.config.size,
                          !.activePresetId = preset.id]

\* applyPreset (lines 184-191): the configuration after its five updates
ApplyPreset(preset) ==
    [CurrentConfig EXCEPT !.trailStyle = preset.config.style,
                          !.trailColor = preset.config.color,
                          !.trailSize = preset.config.size,
                          !.fadeSpeed = preset.config.fade,
                          !.activePresetId = preset.id]

\* keys pressed that are no other shortcut
PresetKeys == {"1", "2", "3", "4"}

\* a digit key (lines 364-368): the preset with that shortcut, if any
PresetKey ==
    /\ CanConfigure
    /\ \E key \in PresetKeys :
        LET found == {combo \in PRESET_COMBOS : combo.shortcut = key}
        IN  IF found = {}
            THEN /\ UNCHANGED <<cfgVars, poolVars, recVars, bridgeVars, mounted, hasCapture>>
                 /\ lastOp' = "nopreset"
            ELSE \E preset \in found :
                    /\ Commit(ApplyPreset(preset))
                    /\ lastOp' = preset.id

\* ids passed to controls.applyPreset
PresetIds == {combo.id : combo \in PRESET_COMBOS} \cup {"no-such-preset"}

\* a preset button (line 486) and controls.applyPreset (lines 380-383)
PresetById ==
    /\ CanConfigure
    /\ \E presetId \in PresetIds :
        LET found == {combo \in PRESET_COMBOS : combo.id = presetId}
        IN  IF found = {}
            THEN /\ UNCHANGED <<cfgVars, poolVars, recVars, bridgeVars, mounted, hasCapture>>
                 /\ lastOp' = "nopreset"
            ELSE \E preset \in found :
                    /\ Commit(ApplyPreset(preset))
                    /\ lastOp' = preset.id

Max(a, b) == IF a >= b THEN a ELSE b
Min(a, b) == IF a <= b THEN a ELSE b

\* mutant: the '[' key without its floor
SmallerSizeUnclamped(current) == current - 2

\* the updater of the '[' key (line 352)
SmallerSize(current) == Max(12, current - 2)

\* the updater of the ']' key (line 359)
LargerSize(current) == Min(60, current + 2)

\* the '[' key (lines 350-355)
SizeDownKey ==
    /\ CanConfigure
    /\ Commit([CurrentConfig EXCEPT !.trailSize = SmallerSize(trailSize),
                                    !.activePresetId = Null])
    /\ lastOp' = "["

\* the ']' key (lines 357-362)
SizeUpKey ==
    /\ CanConfigure
    /\ Commit([CurrentConfig EXCEPT !.trailSize = LargerSize(trailSize),
                                    !.activePresetId = Null])
    /\ lastOp' = "]"

\* mutant: the style button without setActivePresetId(null)
StyleButtonKeepPreset(style) == [CurrentConfig EXCEPT !.trailStyle = style]

\* the onClick of a style button (lines 444-447): the configuration after it
StyleButton(style) == [CurrentConfig EXCEPT !.trailStyle = style, !.activePresetId = Null]

\* a style button is clicked
SetTrailStyle ==
    /\ CanConfigure
    /\ \E style \in TRAIL_STYLES : Commit(StyleButton(style))
    /\ lastOp' = "style"

\* a color button is clicked (lines 470-473)
SetTrailColor ==
    /\ CanConfigure
    /\ \E color \in COLOR_PRESETS :
        Commit([CurrentConfig EXCEPT !.trailColor = color, !.activePresetId = Null])
    /\ lastOp' = "color"

\* values the size slider is moved to, within its min and max (lines 505-506)
SliderSizes == {12, 13, 41, 59, 60}

\* the size slider (lines 508-511)
SetTrailSize ==
    /\ CanConfigure
    /\ \E value \in SliderSizes :
        Commit([CurrentConfig EXCEPT !.trailSize = value, !.activePresetId = Null])
    /\ lastOp' = "size"

\* payloads found in the store by a first instance
StoredSize(x) == [Serialize(DefaultConfig) EXCEPT !.trailSize = x]
ConfigPayloads ==
    {Absent, Malformed, StoredSize(JsString("forty")), StoredSize(JsNumber(40)),
     Serialize([isActive |-> FALSE, trailStyle |-> "glow", trailColor |-> "#3B82F6",
                trailSize |-> 40, fadeSpeed |-> 30, activePresetId |-> Null]),
     [Serialize(DefaultConfig) EXCEPT !.isActive = JsString("yes"),
                                      !.activePresetId = JsString("brush-studio")]}

\* the state after the first render of an instance and the effects of that
\* render: the load effect has read the payload and queued its updates, the
\* save effect has run with settingsHydrated false, the animation effect has
\* run render() once and the control surface is installed
FirstRender(payload, rendered) ==
    /\ isActive = DefaultConfig.isActive
    /\ trailStyle = DefaultConfig.trailStyle
    /\ trailColor = DefaultConfig.trailColor
    /\ trailSize = DefaultConfig.trailSize
    /\ fadeSpeed = DefaultConfig.fadeSpeed
    /\ activePresetId = DefaultConfig.activePresetId
    /\ settingsHydrated = FALSE
    /\ stored = payload
    /\ pointsRef = <<>>
    /\ frames = rendered
    /\ animationRef = rendered
    /\ rafQueue = {[id |-> rendered,
                    cfg |-> Closure(DefaultConfig.trailStyle, DefaultConfig.trailColor,
                                    DefaultConfig.trailSize, DefaultConfig.fadeSpeed)]}
    /\ mounted = TRUE
    /\ recordingState = "idle"
    /\ recordingUrl = NoUrl
    /\ recordingError = ""
    /\ mediaRecorderRef = NoRef
    /\ chunksRef = <<>>
    /\ screenStreamRef = NoRef
    /\ pending = 0
    /\ tracks = [s \in 1..MaxStarts |-> "none"]
    /\ recorders = [s \in 1..MaxStarts |-> "none"]
    /\ dataCount = [s \in 1..MaxStarts |-> 0]
    /\ windowControls = 1
    /\ controls = 1
    /\ peerControls = NoRef

InitFirstRender ==
    /\ \E payload \in ConfigPayloads : FirstRender(payload, 1)
    /\ adds = 0
    /\ starts = 0
    /\ hasCapture = TRUE
    /\ lastOp = "mount"

\* the commit of the updates the load effect queued (lines 158-176)
LoadSettings ==
    /\ mounted
    /\ ~settingsHydrated
    /\ LET c == Hydrate(stored)
       IN  /\ isActive' = c.isActive
           /\ trailStyle' = c.trailStyle
           /\ trailColor' = c.trailColor
           /\ trailSize' = c.trailSize
           /\ fadeSpeed' = c.fadeSpeed
           /\ activePresetId' = c.activePresetId
           /\ settingsHydrated' = TRUE
           /\ SaveEffect(c, TRUE)
           /\ AnimationEffect(c.trailStyle, c.trailColor, c.trailSize, c.fadeSpeed)
    /\ lastOp' = "load"
    /\ UNCHANGED <<adds, recVars, bridgeVars, mounted, hasCapture>>

\* the page is loaded again once the instance has started: a fresh instance
\* renders for the first time on the payload the store holds
Reload ==
    /\ settingsHydrated
    /\ frames < MaxConfigFrames
    /\ isActive' = DefaultConfig.isActive
    /\ trailStyle' = DefaultConfig.trailStyle
    /\ trailColor' = DefaultConfig.trailColor
    /\ trailSize' = DefaultConfig.trailSize
    /\ fadeSpeed' = DefaultConfig.fadeSpeed
    /\ activePresetId' = DefaultConfig.activePresetId
    /\ settingsHydrated' = FALSE
    /\ SaveEffect(DefaultConfig, FALSE)
    /\ pointsRef' = <<>>
    /\ frames' = frames + 1
    /\ animationRef' = frames + 1
    /\ rafQueue' = {[id |-> frames + 1,
                     cfg |-> Closure(DefaultConfig.trailStyle, DefaultConfig.trailColor,
                                     DefaultConfig.trailSize, DefaultConfig.fadeSpeed)]}
    /\ mounted' = TRUE
    /\ recordingState' = "idle"
    /\ recordingUrl' = NoUrl
    /\ recordingError' = ""
    /\ mediaRecorderRef' = NoRef
    /\ chunksRef' = <<>>
    /\ screenStreamRef' = NoRef
    /\ pending' = 0
    /\ tracks' = [s \in 1..MaxStarts |-> "none"]
    /\ recorders' = [s \in 1..MaxStarts |-> "none"]
    /\ dataCount' = [s \in 1..MaxStarts |-> 0]
    /\ windowControls' = 1
    /\ controls' = 1
    /\ peerControls' = NoRef
    /\ lastOp' = "reload"
    /\ UNCHANGED <<adds, starts, hasCapture>>

(***************************************************************************)
(* Control surface (lines 375-394).  A controls object is named by a       *)
(* number; an object nothing refers to any more gives its number back.     *)
(***************************************************************************)
ControlIds == 1..3

\* mutant: the cleanup deletes whatever is published
ControlsCleanupAlways(slot, own) == NoRef

\* the cleanup of the effect (lines 389-393): the slot after it
ControlsCleanup(slot, own) == IF slot = own THEN NoRef ELSE slot

\* the object literal of line 378: an object that nothing refers to yet
NewControls(slot, other) ==
    CHOOSE id \in ControlIds :
        /\ id \notin {slot, other}
        /\ \A lower \in ControlIds : lower < id => lower \in {slot, other}

\* the effect after a commit: startRecording and stopRecording are new
\* functions when recordingState changed (lines 240, 247), and then the
\* cleanup of the last run and the effect run
ControlsEffect ==
    IF recordingState' = recordingState
    THEN UNCHANGED bridgeVars
    ELSE LET cleaned == ControlsCleanup(windowControls, controls)
             installed == NewControls(cleaned, peerControls)
         IN  /\ windowControls' = installed
             /\ controls' = installed
             /\ UNCHANGED peerControls

\* a second App mounts in the same window: its effect runs
PeerMount ==
    /\ peerControls = NoRef
    /\ LET installed == NewControls(windowControls, controls)
       IN  /\ windowControls' = installed
           /\ peerControls' = installed
    /\ lastOp' = "peermount"
    /\ UNCHANGED <<cfgVars, poolVars, recVars, controls, mounted, hasCapture>>

\* the recordingState of the second App changes: cleanup and effect run
PeerRerun ==
    /\ peerControls # NoRef
    /\ LET cleaned == ControlsCleanup(windowControls, peerControls)
           installed == NewControls(cleaned, controls)
       IN  /\ windowControls' = installed
           /\ peerControls' = installed
    /\ lastOp' = "peerrerun"
    /\ UNCHANGED <<cfgVars, poolVars, recVars, controls, mounted, hasCapture>>

\* the second App unmounts: the cleanup runs
PeerUnmount ==
    /\ peerControls # NoRef
    /\ windowControls' = ControlsCleanup(windowControls, peerControls)
    /\ peerControls' = NoRef
    /\ lastOp' = "peerunmount"
    /\ UNCHANGED <<cfgVars, poolVars, recVars, controls, mounted, hasCapture>>

(***************************************************************************)
(* Recording controller.                                                   *)
(***************************************************************************)
\* a state setter of an unmounted component changes nothing
SetState(current, value) == IF mounted THEN value ELSE current

\* mutant: the message without its fallback
ErrorTextNoFallback(message) == message

\* error?.message || 'Unable to start screen recording.' (line 233)
ErrorText(message) ==
    IF message = "" THEN "Unable to start screen recording." ELSE message

\* messages of the errors the capture request and the encoder throw
ErrorMessages == {"", "Permission denied"}

\* the capture handle the next grant delivers
NextHandle == Cardinality({s \in DOMAIN tracks : tracks[s] # "none"}) + 1

\* mutant: the catch block stops the tracks and keeps the stream ref
CatchKeepsRef(message, streamRef, tracksNow) ==
    /\ recordingError' = SetState(recordingError, ErrorText(message))
    /\ tracks' = IF streamRef # NoRef
                 THEN [tracksNow EXCEPT ![streamRef] = "stopped"]
                 ELSE tracksNow
    /\ screenStreamRef' = streamRef
    /\ recordingState' = SetState(recordingState, "idle")

\* the catch block of startRecording (lines 232-239), entered with the
\* stream ref and the tracks as the try block left them
Catch(message, streamRef, tracksNow) ==
    /\ recordingError' = SetState(recordingError, ErrorText(message))
    /\ tracks' = IF streamRef # NoRef
                 THEN [tracksNow EXCEPT ![streamRef] = "stopped"]
                 ELSE tracksNow
    /\ screenStreamRef' = NoRef
    /\ recordingState' = SetState(recordingState, "idle")

\* the guard of startRecording (line 194)
AlreadyRecording == recordingState = "recording"

\* startRecording up to its await (lines 193-207)
StartRecordingCall ==
    IF AlreadyRecording
    THEN UNCHANGED recVars
    ELSE IF ~hasCapture
    THEN /\ recordingError' = "Screen capture is not supported in this browser yet."
         /\ UNCHANGED <<recordingState, recordingUrl, mediaRecorderRef, chunksRef,
                        screenStreamRef, pending, tracks, recorders, dataCount, starts>>
    ELSE /\ starts < MaxStarts
         /\ recordingError' = ""
         /\ recordingUrl' = NoUrl
         /\ pending' = pending + 1
         /\ starts' = starts + 1
         /\ UNCHANGED <<recordingState, mediaRecorderRef, chunksRef, screenStreamRef,
                        tracks, recorders, dataCount>>

\* mutant: stopRecording guarded by the encoder ref alone
StopRecordingAnyState ==
    IF mediaRecorderRef = NoRef
    THEN UNCHANGED recVars
    ELSE /\ recordingState' = "processing"
         /\ recorders' = IF recorders[mediaRecorderRef] = "recording"
                         THEN [recorders EXCEPT ![mediaRecorderRef] = "finalizing"]
                         ELSE recorders
         /\ mediaRecorderRef' = NoRef
         /\ UNCHANGED <<recordingUrl, recordingError, chunksRef, screenStreamRef,
                        pending, tracks, dataCount, starts>>

\* stopRecording (lines 242-247)
StopRecordingCall ==
    IF recordingState # "recording" \/ mediaRecorderRef = NoRef
    THEN UNCHANGED recVars
    ELSE /\ recordingState' = "processing"
         /\ recorders' = IF recorders[mediaRecorderRef] = "recording"
                         THEN [recorders EXCEPT ![mediaRecorderRef] = "finalizing"]
                         ELSE recorders
         /\ mediaRecorderRef' = NoRef
         /\ UNCHANGED <<recordingUrl, recordingError, chunksRef, screenStreamRef,
                        pending, tracks, dataCount, starts>>

\* the R key and the record button (lines 343-348, 535)
ToggleRecording ==
    /\ mounted
    /\ IF recordingState = "recording"
       THEN StopRecordingCall /\ lastOp' = "stop"
       ELSE StartRecordingCall /\ lastOp' = "start"
    /\ ControlsEffect
    /\ UNCHANGED <<cfgVars, poolVars, mounted, hasCapture>>

\* controls.startRecording (line 384)
ControlStart ==
    /\ mounted
    /\ StartRecordingCall
    /\ lastOp' = "start"
    /\ ControlsEffect
    /\ UNCHANGED <<cfgVars, poolVars, mounted, hasCapture>>

\* controls.stopRecording (line 385)
ControlStop ==
    /\ mounted
    /\ StopRecordingCall
    /\ lastOp' = "stop"
    /\ ControlsEffect
    /\ UNCHANGED <<cfgVars, poolVars, mounted, hasCapture>>

\* getDisplayMedia resolves and startRecording runs to its end (lines 209-231)
GrantOk ==
    /\ pending > 0
    /\ pending' = pending - 1
    /\ tracks' = [tracks EXCEPT ![NextHandle] = "live"]
    /\ recorders' = [recorders EXCEPT ![NextHandle] = "recording"]
    /\ chunksRef' = <<>>
    /\ mediaRecorderRef' = NextHandle
    /\ screenStreamRef' = NextHandle
    /\ recordingState' = SetState(recordingState, "recording")
    /\ lastOp' = "grant"
    /\ ControlsEffect
    /\ UNCHANGED <<recordingUrl, recordingError, dataCount, starts,
                   cfgVars, poolVars, mounted, hasCapture>>

\* getDisplayMedia resolves and new MediaRecorder throws (line 209)
GrantBindFail ==
    /\ pending > 0
    /\ pending' = pending - 1
    /\ \E message \in ErrorMessages :
        Catch(message, screenStreamRef, [tracks EXCEPT ![NextHandle] = "live"])
    /\ ControlsEffect
    /\ lastOp' = "bindfail"
    /\ UNCHANGED <<recordingUrl, mediaRecorderRef, chunksRef, recorders, dataCount, starts,
                   cfgVars, poolVars, mounted, hasCapture>>

\* getDisplayMedia resolves and recorder.start() throws (line 230)
GrantStartFail ==
    /\ pending > 0
    /\ pending' = pending - 1
    /\ chunksRef' = <<>>
    /\ mediaRecorderRef' = NextHandle
    /\ recorders' = [recorders EXCEPT ![NextHandle] = "inactive"]
    /\ \E message \in ErrorMessages :
        Catch(message, NextHandle, [tracks EXCEPT ![NextHandle] = "live"])
    /\ ControlsEffect
    /\ lastOp' = "startfail"
    /\ UNCHANGED <<recordingUrl, dataCount, starts, cfgVars, poolVars, mounted, hasCapture>>

\* getDisplayMedia rejects: permission denied or picker cancelled (line 204)
Reject ==
    /\ pending > 0
    /\ pending' = pending - 1
    /\ \E message \in ErrorMessages : Catch(message, screenStreamRef, tracks)
    /\ ControlsEffect
    /\ lastOp' = "reject"
    /\ UNCHANGED <<recordingUrl, mediaRecorderRef, chunksRef, recorders, dataCount, starts,
                   cfgVars, poolVars, mounted, hasCapture>>

\* recorder.ondataavailable (lines 212-216)
DataAvailable ==
    /\ \E s \in DOMAIN recorders, size \in {0, 1} :
        /\ recorders[s] \in {"recording", "finalizing"}
        /\ IF size > 0
           THEN /\ dataCount[s] < MaxChunks
                /\ dataCount' = [dataCount EXCEPT ![s] = @ + 1]
                /\ chunksRef' = Append(chunksRef, [session |-> s, n |-> dataCount[s] + 1])
           ELSE UNCHANGED <<dataCount, chunksRef>>
    /\ lastOp' = "data"
    /\ UNCHANGED <<recordingState, recordingUrl, recordingError, mediaRecorderRef,
                   screenStreamRef, pending, tracks, recorders, starts,
                   cfgVars, poolVars, bridgeVars, mounted, hasCapture>>

\* mutant: the stop event without setRecordingState('idle')
OnStopStaysProcessing ==
    /\ \E s \in DOMAIN recorders :
        /\ recorders[s] = "finalizing"
        /\ recorders' = [recorders EXCEPT ![s] = "inactive"]
        /\ recordingUrl' = SetState(recordingUrl, <<[session |-> s, chunks |-> chunksRef]>>)
        /\ tracks' = [tracks EXCEPT ![s] = "stopped"]
    /\ chunksRef' = <<>>
    /\ screenStreamRef' = NoRef
    /\ lastOp' = "onstop"
    /\ UNCHANGED <<recordingState, recordingError, mediaRecorderRef, pending, dataCount,
                   starts, cfgVars, poolVars, bridgeVars, mounted, hasCapture>>

\* recorder.onstop (lines 218-226)
OnStop ==
    /\ \E s \in DOMAIN recorders :
        /\ recorders[s] = "finalizing"
        /\ recorders' = [recorders EXCEPT ![s] = "inactive"]
        /\ recordingUrl' = SetState(recordingUrl, <<[session |-> s, chunks |-> chunksRef]>>)
        /\ tracks' = [tracks EXCEPT ![s] = "stopped"]
    /\ chunksRef' = <<>>
    /\ screenStreamRef' = NoRef
    /\ recordingState' = SetState(recordingState, "idle")
    /\ lastOp' = "onstop"
    /\ ControlsEffect
    /\ UNCHANGED <<recordingError, mediaRecorderRef, pending, dataCount, starts,
                   cfgVars, poolVars, mounted, hasCapture>>

\* the component unmounts: the cleanups of lines 284, 309-313, 372, 389-393
\* and 397-404 run
Unmount ==
    /\ mounted
    /\ mounted' = FALSE
    /\ rafQueue' = CancelAnimationFrame(rafQueue, animationRef)
    /\ recorders' = IF mediaRecorderRef # NoRef /\ recorders[mediaRecorderRef] = "recording"
                    THEN [recorders EXCEPT ![mediaRecorderRef] = "finalizing"]
                    ELSE recorders
    /\ tracks' = IF screenStreamRef # NoRef
                 THEN [tracks EXCEPT ![screenStreamRef] = "stopped"]
                 ELSE tracks
    /\ windowControls' = ControlsCleanup(windowControls, controls)
    /\ controls' = NoRef
    /\ lastOp' = "unmount"
    /\ UNCHANGED <<cfgVars, pointsRef, animationRef, adds, frames,
                   recordingState, recordingUrl, recordingError, mediaRecorderRef, chunksRef,
                   screenStreamRef, pending, dataCount, starts, peerControls, hasCapture>>

(***************************************************************************)
(* Specifications.                                                         *)
(***************************************************************************)
\* the pool under pointer moves, frames, the active flag and the fade slider
InitPool == InitWith(PoolPayloads) /\ hasCapture
NextPool == MouseMove \/ Frame \/ ToggleActive \/ SetFadeSpeed \/ Unmount
SpecPool == InitPool /\ [][NextPool]_vars

\* the recording controller under its callers and callbacks
InitRec == InitWith({Absent})
NextRec ==
    \/ ToggleRecording \/ ControlStart \/ ControlStop
    \/ GrantOk \/ GrantBindFail \/ GrantStartFail \/ Reject
    \/ DataAvailable \/ OnStop \/ Unmount
SpecRec == InitRec /\ [][NextRec]_vars

\* the shortcuts and panel controls of the configuration, with the
\* recording shortcut
InitStarted == InitWith({Absent}) /\ hasCapture
NextKeys ==
    \/ PresetKey \/ SizeDownKey \/ SizeUpKey
    \/ SetTrailStyle \/ SetTrailColor \/ SetTrailSize \/ ToggleActive
    \/ ToggleRecording \/ ControlStop \/ GrantOk \/ Unmount
SpecKeys == InitStarted /\ [][NextKeys]_vars

\* the size under its keys and its slider
NextSize == LoadSettings \/ SizeDownKey \/ SizeUpKey \/ SetTrailSize \/ Unmount
SpecSize == InitFirstRender /\ [][NextSize]_vars

\* presets and the animation loop
NextPreset == LoadSettings \/ PresetKey \/ PresetById \/ SetFadeSpeed \/ Frame \/ Unmount
SpecPreset == InitFirstRender /\ [][NextPreset]_vars

\* the settings store across page loads
NextStore ==
    \/ LoadSettings \/ Reload \/ PresetById \/ SetTrailStyle \/ SetTrailSize
    \/ ToggleActive \/ Unmount
SpecStore == InitFirstRender /\ [][NextStore]_vars

\* the control surface of two instances in one window
NextBridge ==
    \/ PeerMount \/ PeerRerun \/ PeerUnmount
    \/ ToggleRecording \/ GrantOk \/ OnStop \/ Unmount
SpecBridge == InitStarted /\ [][NextBridge]_vars

\* the recording controller with an encoder that signals every stop it was
\* asked for: a MediaRecorder fires its stop event after stop()
NextStop ==
    \/ ToggleRecording \/ ControlStart \/ ControlStop
    \/ GrantOk \/ GrantBindFail \/ GrantStartFail \/ Reject \/ OnStop \/ Unmount
SpecStop == InitRec /\ [][NextStop]_vars /\ WF_vars(OnStop)

(***************************************************************************)
(* Properties.                                                             *)
(***************************************************************************)
\* The recording state as section 4.4 names it: the program has no value
\* "requesting"; a capture request is pending while recordingState is still
\* "idle".
SessionState ==
    IF recordingState = "idle" /\ pending > 0 THEN "requesting" ELSE recordingState

AllowedEdges ==
    {<<"idle", "requesting">>, <<"requesting", "recording">>,
     <<"recording", "processing">>, <<"processing", "idle">>,
     <<"requesting", "idle">>, <<"recording", "idle">>}

\* C1: the particle pool never holds more than MAX_POINTS points, whatever
\* the interleaving of pointer moves, frames, toggles and fade changes.
C1_PoolLengthBounded == Len(pointsRef) <= MAX_POINTS

\* a pointer move on a full pool has evicted the oldest point
C1_Witness ==
    /\ lastOp = "mousemove"
    /\ adds > MAX_POINTS
    /\ Len(pointsRef) = MAX_POINTS
    /\ pointsRef[1].id = adds - MAX_POINTS + 1

\* C2: the recording state changes only along idle -> requesting ->
\* recording -> processing -> idle, requesting -> idle and recording -> idle.
C2_OnlyAllowedEdges ==
    [][SessionState' # SessionState => <<SessionState, SessionState'>> \in AllowedEdges]_vars

\* C3: start() changes nothing of the recording session unless the state is
\* idle with no capture request pending.
C3_StartNoOpUnlessIdle ==
    [][lastOp' = "start" /\ SessionState # "idle" => UNCHANGED recVars]_vars

\* C4: stop() changes nothing of the recording session (state, encoder,
\* stream, chunks, artifact) unless the state is recording.
C4_StopNoOpUnlessRecording ==
    [][lastOp' = "stop" /\ recordingState # "recording" => UNCHANGED recVars]_vars

\* stop() was called while a capture request was pending in state idle
C4_Witness == lastOp = "stop" /\ recordingState = "idle" /\ pending > 0

\* C5: right after a finalized cycle or a failed start, no capture handle
\* the controller acquired has a live track.
C5_NoLiveTrackAfterCycle ==
    lastOp \in {"onstop", "reject", "bindfail", "startfail"}
        => \A s \in DOMAIN tracks : tracks[s] # "live"

\* C6: at most one session at a time: pending capture requests and sessions
\* with a live handle or an active encoder number at most one in total.
C6_AtMostOneSession ==
    pending + Cardinality({s \in DOMAIN tracks :
                              \/ tracks[s] = "live"
                              \/ recorders[s] \in {"recording", "finalizing"}}) <= 1

\* C7 as claimed: the stream ref is non-null iff the state is requesting or
\* recording.
C7_StreamIffRequestingOrRecording ==
    screenStreamRef # NoRef <=> SessionState \in {"requesting", "recording"}

\* C7 as amended: while the component is mounted, the stream ref is non-null
\* iff recordingState is recording or processing.
C7_StreamIffRecordingOrProcessing ==
    mounted => (screenStreamRef # NoRef <=> recordingState \in {"recording", "processing"})

\* stop() has moved a session to processing and its stream is still referenced
C7_Witness ==
    mounted /\ lastOp = "stop" /\ recordingState = "processing" /\ screenStreamRef # NoRef

\* C8: once the component is torn down and no callback is outstanding, no
\* encoder is active and no capture track is live.
C8_TeardownReleasesAll ==
    (/\ ~mounted
     /\ pending = 0
     /\ \A s \in DOMAIN recorders : recorders[s] # "finalizing")
        => \A s \in DOMAIN recorders : recorders[s] # "recording" /\ tracks[s] # "live"

C10_LifeInUnitInterval ==
    \A i \in 1..Len(pointsRef) :
        /\ ~LifeLeq(pointsRef[i].life, LifeZero)
        /\ LifeLeq(pointsRef[i].life, LifeOne)

\* ceil(1000 / f) for f > 0
Ceil1000(f) == (1000 + f - 1) \div f

\* a step that ran render() once
RanRender == frames' = frames + 1

\* C11: under a constant fade rate f in [20,120] a point survives each of
\* its first ceil(1000/f) - 1 render() steps with a life that does not
\* increase, and the ceil(1000/f)-th step removes it.
C11_RemovedAtCeilStep ==
    [][RanRender =>
        \A i \in 1..Len(pointsRef) :
            LET point == pointsRef[i]
                f == fadeSpeed'
                kept == {j \in 1..Len(pointsRef') : pointsRef'[j].id = point.id}
            IN  (f \in 20..120 /\ point.fades \subseteq {f}) =>
                    /\ point.steps + 1 <= Ceil1000(f)
                    /\ point.steps + 1 < Ceil1000(f) =>
                           \E j \in kept : LifeLeq(pointsRef'[j].life, point.life)
                    /\ point.steps + 1 = Ceil1000(f) => kept = {}]_vars

\* C12: applying a preset leaves all five values of the preset in the
\* state, and every pending frame callback, hence every animation step, works
\* with the style, color, size and fade rate of one committed configuration.
C12_PresetAtomic ==
    [][/\ \A cb \in rafQueue' :
            cb.cfg = Closure(trailStyle', trailColor', trailSize', fadeSpeed')
       /\ \A preset \in PRESET_COMBOS :
            lastOp' = preset.id =>
                /\ trailStyle' = preset.config.style
                /\ trailColor' = preset.config.color
                /\ trailSize' = preset.config.size
                /\ fadeSpeed' = preset.config.fade
                /\ activePresetId' = preset.id]_vars

\* a frame has run after brush-studio replaced another configuration
C12_Witness ==
    /\ lastOp = "frame"
    /\ activePresetId = "brush-studio"
    /\ rafQueue # {}
    /\ \A cb \in rafQueue : cb.cfg = Closure("brush", "#8B5CF6", 36, 85)

\* C13: the '[' and ']' keys and the style, color and size controls leave
\* activePresetId null, also when the value they set is the one already held;
\* the toggle and start/stop of the recording leave activePresetId as it was.
C13_ManualChangeClearsPreset ==
    [][/\ lastOp' \in {"[", "]", "style", "color", "size"} => activePresetId' = Null
       /\ lastOp' \in {"toggle", "start", "stop"} => activePresetId' = activePresetId]_vars

\* '[' was pressed on the configuration of tutorial-pop
C13_Witness ==
    /\ lastOp = "["
    /\ <<trailStyle, trailColor, trailSize, fadeSpeed>> = <<"sparkle", "#F59E0B", 26, 70>>
    /\ activePresetId = Null

\* the size after n presses of one of the size keys
RECURSIVE Presses(_, _, _)
Presses(key, size, n) ==
    IF n = 0 THEN size
    ELSE IF n = 1 THEN (IF key = "[" THEN SmallerSize(size) ELSE LargerSize(size))
    ELSE LET half == n \div 2
             midway == Presses(key, size, half)
         IN  \* the test has the first half computed before the second starts
             IF midway \in Int THEN Presses(key, midway, n - half) ELSE midway

\* C14: '[' sets size to max(12, size - 2) and ']' to min(60, size + 2); a
\* size in [12,60] stays in [12,60]; 100 presses from 22 give 12 and 60.
C14_SizeKeysClamp ==
    [][/\ lastOp' = "[" =>
            /\ trailSize' = (IF trailSize - 2 < 12 THEN 12 ELSE trailSize - 2)
            /\ Presses("[", 22, 100) = 12
       /\ lastOp' = "]" =>
            /\ trailSize' = (IF trailSize + 2 > 60 THEN 60 ELSE trailSize + 2)
            /\ Presses("]", 22, 100) = 60
       /\ (lastOp' \in {"[", "]"} /\ trailSize \in 12..60) => trailSize' \in 12..60]_vars

\* '[' has brought the size to its floor
C14_Witness == lastOp = "[" /\ trailSize = 12

\* typeof of each stored field the load effect accepts
FieldTypes ==
    [isActive |-> "boolean", trailStyle |-> "string", trailColor |-> "string",
     trailSize |-> "number", fadeSpeed |-> "number", activePresetId |-> "string"]

\* C15: once an instance has started, the store holds its six values; until
\* then the store is not written; startup takes each stored field of the
\* right type and the default for the others; and a fresh instance started
\* on the payload of the previous instance holds exactly the values saved.
C15_SettingsRoundTrip ==
    [][/\ settingsHydrated' => stored' = Serialize(CurrentConfig')
       /\ ~settingsHydrated' => stored' = stored
       /\ lastOp' = "load" =>
            \A name \in DOMAIN FieldTypes :
                CurrentConfig'[name] =
                    IF stored.kind = "object" /\ stored[name].t = FieldTypes[name]
                    THEN stored[name].v
                    ELSE DefaultConfig[name]
       /\ (lastOp = "reload" /\ lastOp' = "load") =>
            Serialize(CurrentConfig') = stored]_vars

\* a fresh instance has restored an inactive trail with signature-cyan
C15_Witness ==
    /\ lastOp = "load"
    /\ ~isActive
    /\ activePresetId = "signature-cyan"
    /\ <<trailStyle, trailColor, trailSize, fadeSpeed>> = <<"glow", "#00C4CC", 32, 55>>

\* C16: an instance's deregistration removes the published object only when
\* it is that instance's own, and when the other instance's object is the
\* published one (it was installed later), it is still published after this
\* instance's teardown or re-registration.
C16_NewerInstanceStaysPublished ==
    [][/\ lastOp' = "unmount" =>
            windowControls' = (IF windowControls = controls THEN NoRef ELSE windowControls)
       /\ lastOp' = "peerunmount" =>
            windowControls' = (IF windowControls = peerControls THEN NoRef ELSE windowControls)
       /\ (windowControls = peerControls /\ peerControls # NoRef
           /\ (lastOp' = "unmount" \/ recordingState' # recordingState)) =>
            windowControls' = peerControls
       /\ (windowControls = controls /\ controls # NoRef
           /\ lastOp' \in {"peerunmount", "peerrerun"}) =>
            windowControls' = controls]_vars

\* the ids of the points of a pool; ids are given in order of creation
PointIds(points) == {points[i].id : i \in 1..Len(points)}

\* C17: the pool is in order of insertion; a pointer move on an active
\* trail appends the new point and, when that makes more than 48, removes the
\* oldest point and nothing else; render() removes exactly the points whose
\* new life is 0 or below and keeps the others in their order.
C17_InsertionOrderKept ==
    [][/\ \A i \in 1..(Len(pointsRef') - 1) : pointsRef'[i].id < pointsRef'[i + 1].id
       /\ (lastOp' = "mousemove" /\ isActive) =>
            /\ pointsRef'[Len(pointsRef')] = NewPoint(adds + 1)
            /\ IF Len(pointsRef) + 1 > 48
               THEN /\ Len(pointsRef') = 48
                    /\ \A i \in 1..47 : pointsRef'[i] = pointsRef[i + 1]
               ELSE /\ Len(pointsRef') = Len(pointsRef) + 1
                    /\ \A i \in 1..Len(pointsRef) : pointsRef'[i] = pointsRef[i]
       /\ RanRender =>
            LET kept == PointIds(pointsRef')
                decay == Div1000(fadeSpeed')
            IN  /\ kept \subseteq PointIds(pointsRef)
                /\ \A i \in 1..Len(pointsRef) :
                        pointsRef[i].id \notin kept <=>
                            (fadeSpeed' >= 0 /\ LifeLeq(pointsRef[i].life, decay))]_vars

\* render() has removed the first of two points and kept the second
C17_Witness ==
    /\ lastOp = "frame"
    /\ adds = 2
    /\ Len(pointsRef) = 1
    /\ pointsRef[1].id = 2

\* C18: a step that restarts the animation loop because style, color, size
\* or fade rate changed leaves the pool with the same points and lives.
C18_RestartKeepsPool ==
    [][(mounted /\ <<trailStyle', trailColor', trailSize', fadeSpeed'>> #
                   <<trailStyle, trailColor, trailSize, fadeSpeed>>) =>
            /\ Len(pointsRef') = Len(pointsRef)
            /\ \A i \in 1..Len(pointsRef) :
                    /\ pointsRef'[i].id = pointsRef[i].id
                    /\ pointsRef'[i].life = pointsRef[i].life]_vars

\* the non-empty buffers the encoder of session s has produced, in order
Produced(s) == [k \in 1..dataCount[s] |-> [session |-> s, n |-> k]]

\* C19: the stop event of a session's encoder assembles exactly the
\* non-empty buffers that encoder produced, in order, publishes them as the
\* artifact and leaves the chunk buffer empty.
C19_ArtifactIsOwnChunks ==
    [][lastOp' = "onstop" =>
        \A s \in DOMAIN recorders :
            (recorders[s] = "finalizing" /\ recorders'[s] = "inactive") =>
                /\ chunksRef = Produced(s)
                /\ mounted => recordingUrl' = <<[session |-> s, chunks |-> Produced(s)]>>
                /\ chunksRef' = <<>>]_vars

Finalizing(s) == mounted /\ recorders[s] = "finalizing"

\* idle, no stream held and the artifact of session s exposed
Finalized(s) ==
    /\ recordingState = "idle"
    /\ screenStreamRef = NoRef
    /\ recordingUrl # NoUrl
    /\ recordingUrl[1].session = s

\* C21: a stop in state recording sets the state to processing in that
\* step, and while the component stays mounted it is followed by state idle
\* with no stream held and the session's artifact exposed, whatever is
\* started, stopped or granted in between.
C21_StopLeadsToIdle ==
    /\ [][(lastOp' = "stop" /\ recordingState = "recording" /\ mediaRecorderRef # NoRef) =>
            recordingState' = "processing"]_vars
    /\ \A s \in 1..MaxStarts : Finalizing(s) ~> (~mounted \/ Finalized(s))

\* session 1 was finalized after session 2 had been granted
C21_Witness ==
    /\ lastOp = "onstop"
    /\ mounted
    /\ Finalized(1)
    /\ recorders[2] = "recording"

\* C22: a pointer move on an inactive trail leaves the pool as it is; an
\* empty pool stays empty until a pointer move on an active trail; and under
\* a constant fade rate f in [20,120] no point of the pool has gone through
\* ceil(1000/f) render() steps, so that the pool is empty at the latest
\* ceil(1000/f) animation steps after the last point was added.
C22_PoolDrains ==
    [][/\ (lastOp' = "mousemove" /\ ~isActive) => pointsRef' = pointsRef
       /\ (pointsRef = <<>> /\ ~(lastOp' = "mousemove" /\ isActive)) => pointsRef' = <<>>
       /\ fadeSpeed' \in 20..120 =>
            \A i \in 1..Len(pointsRef') :
                pointsRef'[i].fades \subseteq {fadeSpeed'} =>
                    pointsRef'[i].steps < Ceil1000(fadeSpeed')]_vars

====
